---- MODULE Spec2Model ----
(***************************************************************************)
(* Model of the facade-renovation estimator.                               *)
(*                                                                         *)
(*   pricing.py : infer_finition_from_support, compute_m2_price,           *)
(*                build_pricing                                            *)
(*   app.py     : the Geometry built from the dimensions at the result     *)
(*                step (main, step 4); the five-step wizard (init_state,   *)
(*                main) over the session                                   *)
(*   ui.py      : the answers of the forms the wizard stores               *)
(*                                                                         *)
(* Numbers.  The program computes with Python floats.  The model computes  *)
(* the same expressions exactly, in fixed point:                           *)
(*   - a surface, a length or an area is an integer number of hundredths   *)
(*     (1231 is 12.31 m2);                                                 *)
(*   - a displayed quantity ("quantite", round(x, 1)) is an integer number *)
(*     of tenths; a count n is displayed as the quantity n, i.e. 10*n      *)
(*     tenths;                                                             *)
(*   - a displayed price or amount ("pu", "montant", total; round(x, 2))   *)
(*     is an integer number of cents;                                      *)
(*   - an unrounded amount is a record [c, f] that stands for c + f/FR     *)
(*     cents with 0 <= f < FR, so that the running total is never rounded  *)
(*     before the final round(total, 2).                                   *)
(* round() is Python's: to nearest, a tie to the even neighbour.  (On an   *)
(* exact decimal tie the float the program holds may lie a hair to either  *)
(* side; the properties below do not depend on the side a tie falls.)      *)
(***************************************************************************)
EXTENDS Integers, Sequences, FiniteSets, TLC

VARIABLES
    geom,           \* build_pricing argument: Geometry
    support_key,    \* build_pricing argument
    options,        \* build_pricing argument: the options bag (a function on the keys present)
    etat_facade,    \* build_pricing argument
    lignes,         \* build_pricing result: the list of lines
    total,          \* build_pricing result: round(total, 2), in cents
    pc,             \* "args" before the call, "returned" after build_pricing returned
    building_dims,  \* session slice: the dimensions form's answers
    last_geom,      \* session slice: the Geometry built at the result step
    step,           \* session slice: the wizard's step, 0..4
    addr_label,     \* session slice: the label of the confirmed address
    coords,         \* session slice: its coordinates
    osm_ctx,        \* session slice: the building context fetched for it
    facade_state,   \* session slice: the condition form's answers
    points_form,    \* session slice: the options form's answers
    urgency,        \* session slice: the urgency form's answers
    contact,        \* session slice: the contact form's answers
    pdf_bytes,      \* session slice: the generated PDF
    notice,         \* the message of the e-mail dispatch shown by the run, None without one
    before,         \* the address label and the dimensions stored when the run started
    lookups         \* what the run's address and context lookups met, None without one

\* the slices the wizard adds to the result slices
wizard == <<step, addr_label, coords, osm_ctx, facade_state, points_form, urgency,
            contact, pdf_bytes>>

vars == <<geom, support_key, options, etat_facade, lignes, total, pc, building_dims,
          last_geom, wizard, notice, before, lookups>>

None == "None"

\* a run that looked nothing up
NoLookup == [address |-> None, context |-> None]

\* None where a slice otherwise holds a dict or a Geometry, and the empty dict:
\* the program only tests such a slice for truth (TLC cannot compare a string
\* with a record)
NoneDict == [k \in {} |-> 0]

----------------------------------------------------------------------------
(* Price tables (euros)                                                     *)

BASE_FINISH_PRICES == [D3 |-> 80, SILOXANE |-> 90, MINERAL |-> 105]

\* coefficients in hundredths: 0.95, 1.00, 1.15
ETAT_COEFFS == [bon |-> 95, moyen |-> 100, degrade |-> 115]

\* coefficients in tenths: 1.20
PARIS_COEFF == 12
HAUSSMANN_COEFF == 12

PRIX_ECHAFAUD_M2 == 40

PRIX_POINTS ==
    [fenetre_petite |-> 55, fenetre_grande |-> 85,
     garde_corps_simple_ml |-> 50, garde_corps_fer_forge_ml |-> 70,
     garde_corps_balcon_ml |-> 95, descente_ep_ml |-> 35, bandeau_ml |-> 45,
     zinguerie_ml |-> 75, grille_aeration_u |-> 15,
     grillage_protection_ml |-> 25, grillage_galva_ml |-> 70,
     microfissure_ml |-> 10, fissure_ouverte_ml |-> 20,
     reprise_enduit_m2 |-> 25, reprise_lourde_m2 |-> 45, chien_assis_u |-> 320]

----------------------------------------------------------------------------
(* Exact arithmetic                                                         *)

Max(a, b) == IF a >= b THEN a ELSE b

\* the values of "niveaux" the model feeds to build_pricing
NiveauxValues == {0, 3, 5}

\* every divisor surface / niveaux can meet divides NiveauxDen
NiveauxDen == 3 * 5

\* denominator of the fractional part of an unrounded amount (in cents)
FR == 1000000 * NiveauxDen

\* round(num / den) for den > 0, Python's round: nearest, ties to even
RoundDiv(num, den) ==
    LET q == num \div den
        r == num % den
    IN  IF 2 * r < den THEN q
        ELSE IF 2 * r > den THEN q + 1
        ELSE IF q % 2 = 0 THEN q ELSE q + 1

\* the exact amount num / den cents (den divides FR)
Frac(num, den) == [c |-> num \div den, f |-> (num % den) * (FR \div den)]

AmtZero == [c |-> 0, f |-> 0]

AmtAdd(a, b) ==
    LET s == a.f + b.f
    IN  IF s >= FR THEN [c |-> a.c + b.c + 1, f |-> s - FR]
        ELSE [c |-> a.c + b.c, f |-> s]

\* a * 0.01 (the fractional part of a is a multiple of 100/FR: every
\* amount before the cleanup line has a denominator dividing 10000 * NiveauxDen)
AmtPercent(a) ==
    [c |-> a.c \div 100, f |-> (a.c % 100) * (FR \div 100) + (a.f \div 100)]

\* round(a, 2), in cents
AmtRound(a) ==
    IF 2 * a.f < FR THEN a.c
    ELSE IF 2 * a.f > FR THEN a.c + 1
    ELSE IF a.c % 2 = 0 THEN a.c ELSE a.c + 1

\* quantity q (hundredths) times a unit price prix4 (1/10000 euro), in cents
MulQP(q, prix4) ==
    AmtAdd(Frac(q * (prix4 \div 100), 100), Frac(q * (prix4 % 100), 10000))

----------------------------------------------------------------------------
(* pricing.py: finish and unit price                                        *)

\* str.upper() on the support keys the model uses
Upper(s) ==
    CASE s = "pierre_taille" -> "PIERRE_TAILLE"
      [] s = "enduit_ciment" -> "ENDUIT_CIMENT"
      [] OTHER -> s

\* str.lower() on the condition strings the model uses
Lower(s) ==
    CASE s = "BON" -> "bon"
      [] s = "MOYEN" -> "moyen"
      [] s = "DEGRADE" -> "degrade"
      [] OTHER -> s

\* (first: the form's rendered supports are among the rendered ones)
supports_enduit_form ==
    {"ENDUIT_CIMENT", "ENDUIT_PLATRE", "BETON_PEINT", "MONOCOUCHE", "CREPI", "ENDUIT_MORTIER",
     "PLATRE_ANCIEN", "PAVILLON_ENDUIT"}

supports_enduit ==
    {"ENDUIT_CIMENT", "ENDUIT_PLATRE", "BETON_PEINT", "MONOCOUCHE", "CREPI", "ENDUIT_MORTIER"}

supports_mineral_sans_pierre ==
    {"PIERRE_APPARENTE", "BRIQUE_PLEINE", "BRIQUE_APPARENTE"}

supports_mineral ==
    {"PIERRE_TAILLE", "PIERRE_APPARENTE", "BRIQUE_PLEINE", "BRIQUE_APPARENTE"}

\* (etat_facade or "moyen").lower()
EtatNorm(etat) == Lower(IF etat = "" THEN "moyen" ELSE etat)

infer_finition_from_support(support, etat) ==
    LET s == Upper(support)
        etat_norm == EtatNorm(etat)
    IN  IF s \in supports_enduit
        THEN (IF etat_norm = "degrade" THEN "SILOXANE" ELSE "D3")
        ELSE IF s \in supports_mineral
        THEN (IF etat_norm = "degrade" THEN "MINERAL" ELSE "SILOXANE")
        ELSE "D3"

\* the unit price in 1/10000 euro: base * coef_etat * coef_paris * coef_hauss
compute_m2_price(support, etat, is_haussmann) ==
    LET finition == infer_finition_from_support(support, etat)
        base == IF finition \in DOMAIN BASE_FINISH_PRICES
                THEN BASE_FINISH_PRICES[finition] ELSE BASE_FINISH_PRICES["D3"]
        etat_0 == EtatNorm(etat)
        etat_norm == IF etat_0 \in DOMAIN ETAT_COEFFS THEN etat_0 ELSE "moyen"
        coef_etat == ETAT_COEFFS[etat_norm]
        coef_paris == PARIS_COEFF
        coef_hauss == IF is_haussmann THEN HAUSSMANN_COEFF ELSE 10
    IN  [finition |-> finition, prix_m2 |-> base * coef_etat * coef_paris * coef_hauss]

----------------------------------------------------------------------------
(* pricing.py: build_pricing                                                *)

\* options.get(key, default)
Get(opts, key, default) == IF key \in DOMAIN opts THEN opts[key] ELSE default

\* x or default, for a number x
Or(x, default) == IF x = 0 THEN default ELSE x

Ligne(code, designation, quantite, unite, pu, montant, famille) ==
    [code |-> code, designation |-> designation, quantite |-> quantite,
     unite |-> unite, pu |-> pu, montant |-> montant, famille |-> famille]

\* lignes.append(ligne); total += m
Emit(acc, ligne, m) ==
    [lignes |-> Append(acc.lignes, ligne), total |-> AmtAdd(acc.total, m)]

\* montant_raval = geom.surface_facades * prix_m2 (a sign slip of it first)
MontantRavalNeg(surface, prix_m2) == MulQP(0 - surface, prix_m2)

MontantRaval(surface, prix_m2) == MulQP(surface, prix_m2)

\* 1) Ravalement
Ravalement(acc, g, finition, prix_m2) ==
    LET montant_raval == MontantRaval(g.surface_facades, prix_m2)
    IN  Emit(acc,
             Ligne("RAVAL", finition, RoundDiv(g.surface_facades, 10), "m2",
                   RoundDiv(prix_m2, 100), AmtRound(montant_raval), "RAVALEMENT"),
             montant_raval)

\* surface_extra, as the fraction num / den of hundredths of m2 (first: the
\* extra level is added whether or not dormers are treated)
SurfaceExtraAlways(surface_base_echaf, traiter_chiens_assis, nb_chiens_assis, niveaux) ==
    [num |-> surface_base_echaf, den |-> niveaux]

SurfaceExtra(surface_base_echaf, traiter_chiens_assis, nb_chiens_assis, niveaux) ==
    IF traiter_chiens_assis /\ nb_chiens_assis > 0
    THEN [num |-> surface_base_echaf, den |-> niveaux]
    ELSE [num |-> 0, den |-> 1]

\* 2) Echafaudage
Echafaudage(acc, g, traiter_chiens_assis, nb_chiens_assis, niveaux) ==
    LET surface_base_echaf == g.surface_facades
        surface_extra == SurfaceExtra(surface_base_echaf, traiter_chiens_assis,
                                      nb_chiens_assis, niveaux)
        \* surface_totale_echaf = surface_base_echaf + surface_extra, over surface_extra.den
        num == surface_base_echaf * surface_extra.den + surface_extra.num
        den == surface_extra.den
        montant_echaf == Frac(num * PRIX_ECHAFAUD_M2, den)
        designation_echaf == IF surface_extra.num > 0
                             THEN "Echafaudage (etage supplementaire chiens-assis)"
                             ELSE "Echafaudage"
    IN  Emit(acc,
             Ligne("ECHAF", designation_echaf, RoundDiv(num, 10 * den), "m2",
                   PRIX_ECHAFAUD_M2 * 100, AmtRound(montant_echaf), "ECHAUFAUDAGE"),
             montant_echaf)

\* surface_min = 0.08 * geom.surface_facades, in 1/10000 m2 (no heuristic, first)
SurfaceMinZero(surface) == 0 * surface

SurfaceMin(surface) == 8 * surface

\* max(surface_reprise_lourde, surface_min), in 1/10000 m2 (first: the detected
\* area replaces the heuristic as soon as it is given)
SurfaceRepriseLourdeNoFloor(detectee, surface) ==
    IF detectee > 0 THEN 100 * detectee ELSE SurfaceMin(surface)

SurfaceRepriseLourde(detectee, surface) == Max(100 * detectee, SurfaceMin(surface))

\* 3) Reprises lourdes
ReprisesLourdes(acc, g, opts) ==
    LET detectee == Get(opts, "surface_reprises_lourdes_detectee", 0)
        surface_reprise_lourde == SurfaceRepriseLourde(detectee, g.surface_facades)
        pu == PRIX_POINTS["reprise_lourde_m2"]
        m == Frac(surface_reprise_lourde * pu, 100)
    IN  IF surface_reprise_lourde > 0
        THEN Emit(acc,
                  Ligne("MAC_RL", "Reprises lourdes", RoundDiv(surface_reprise_lourde, 1000),
                        "m2", pu * 100, AmtRound(m), "RAVALEMENT"),
                  m)
        ELSE acc

\* the rules "value = float|int(options.get(key, 0) or 0); if value > 0: line",
\* in the order of the source
OptionalRules ==
    << [key |-> "surface_reprises_enduit_detectee", conv |-> "float", code |-> "MAC_RE",
        prix |-> "reprise_enduit_m2", unite |-> "m2", famille |-> "RAVALEMENT"],
       [key |-> "ml_microfissures", conv |-> "float", code |-> "MAC_MICRO",
        prix |-> "microfissure_ml", unite |-> "ml", famille |-> "RAVALEMENT"],
       [key |-> "ml_fissures_ouvertes", conv |-> "float", code |-> "MAC_FISS",
        prix |-> "fissure_ouverte_ml", unite |-> "ml", famille |-> "RAVALEMENT"],
       [key |-> "nb_fenetres_petites", conv |-> "int", code |-> "FEN_P",
        prix |-> "fenetre_petite", unite |-> "u", famille |-> "PEINTURE"],
       [key |-> "nb_fenetres_grandes", conv |-> "int", code |-> "FEN_G",
        prix |-> "fenetre_grande", unite |-> "u", famille |-> "PEINTURE"],
       [key |-> "ml_garde_corps_fer_forge", conv |-> "float", code |-> "GC_FER",
        prix |-> "garde_corps_fer_forge_ml", unite |-> "ml", famille |-> "ZINGUERIE"],
       [key |-> "ml_garde_corps_balcon", conv |-> "float", code |-> "GC_BALC",
        prix |-> "garde_corps_balcon_ml", unite |-> "ml", famille |-> "ZINGUERIE"],
       [key |-> "ml_descente_ep", conv |-> "float", code |-> "DEP",
        prix |-> "descente_ep_ml", unite |-> "ml", famille |-> "ZINGUERIE"],
       [key |-> "ml_bandeaux", conv |-> "float", code |-> "BAND",
        prix |-> "bandeau_ml", unite |-> "ml", famille |-> "ZINGUERIE"],
       [key |-> "ml_zinguerie", conv |-> "float", code |-> "ZINC",
        prix |-> "zinguerie_ml", unite |-> "ml", famille |-> "ZINGUERIE"],
       [key |-> "nb_grilles_aeration", conv |-> "int", code |-> "GRIL",
        prix |-> "grille_aeration_u", unite |-> "u", famille |-> "RAVALEMENT"],
       [key |-> "ml_grillage_protection", conv |-> "float", code |-> "GRILL_PROT",
        prix |-> "grillage_protection_ml", unite |-> "ml", famille |-> "INSTALLATION"],
       [key |-> "ml_grillage_galva", conv |-> "float", code |-> "GRILL_GALV",
        prix |-> "grillage_galva_ml", unite |-> "ml", famille |-> "ZINGUERIE"] >>

\* "if value > 0:" (first: "if value >= 0:")
OptionalEmitsGe(value) == value >= 0

OptionalEmits(value) == value > 0

\* one optional rule: a float value is in hundredths, an int value is a count
OptionalRule(acc, rule, opts) ==
    LET value == Get(opts, rule.key, 0)
        pu == PRIX_POINTS[rule.prix]
        m == IF rule.conv = "float" THEN [c |-> value * pu, f |-> 0]
             ELSE [c |-> value * pu * 100, f |-> 0]
        quantite == IF rule.conv = "float" THEN RoundDiv(value, 10) ELSE 10 * value
    IN  IF OptionalEmits(value)
        THEN Emit(acc, Ligne(rule.code, rule.code, quantite, rule.unite, pu * 100,
                             AmtRound(m), rule.famille), m)
        ELSE acc

RECURSIVE ApplyOptionalRules(_, _, _)
ApplyOptionalRules(acc, rules, opts) ==
    IF rules = << >> THEN acc
    ELSE ApplyOptionalRules(OptionalRule(acc, Head(rules), opts), Tail(rules), opts)

\* 6) Chiens-assis
ChiensAssis(acc, traiter_chiens_assis, nb_chiens_assis) ==
    IF traiter_chiens_assis /\ nb_chiens_assis > 0
    THEN LET pu == PRIX_POINTS["chien_assis_u"]
             m == [c |-> nb_chiens_assis * pu * 100, f |-> 0]
         IN  Emit(acc, Ligne("CHIENS_ASSIS", "Chiens-assis", 10 * nb_chiens_assis, "u",
                             pu * 100, AmtRound(m), "PEINTURE"), m)
    ELSE acc

\* 7) Nettoyage forfaitaire (first: the line is put at the head of the list)
NettoyageFirst(acc) ==
    LET montant_nettoyage == AmtPercent(acc.total)
    IN  [lignes |-> <<Ligne("NETTOYAGE", "Nettoyage final", 10, "forfait",
                           AmtRound(montant_nettoyage), AmtRound(montant_nettoyage),
                           "NETTOYAGE")>> \o acc.lignes,
         total |-> AmtAdd(acc.total, montant_nettoyage)]

Nettoyage(acc) ==
    LET montant_nettoyage == AmtPercent(acc.total)
    IN  Emit(acc, Ligne("NETTOYAGE", "Nettoyage final", 10, "forfait",
                        AmtRound(montant_nettoyage), AmtRound(montant_nettoyage),
                        "NETTOYAGE"),
             montant_nettoyage)

\* niveaux = int(options.get("niveaux", 1) or 1); if niveaux < 1: niveaux = 1
Niveaux(opts) ==
    LET niveaux == Or(Get(opts, "niveaux", 1), 1)
    IN  IF niveaux < 1 THEN 1 ELSE niveaux

build_pricing(g, support, opts, etat) ==
    LET is_haussmann == Get(opts, "is_haussmann", 0) # 0
        traiter_chiens_assis == Get(opts, "traiter_chiens_assis", 0) # 0
        nb_chiens_assis == Or(Get(opts, "nb_chiens_assis", 0), 0)
        niveaux == Niveaux(opts)
        p == compute_m2_price(support, etat, is_haussmann)
        a0 == [lignes |-> << >>, total |-> AmtZero]
        a1 == Ravalement(a0, g, p.finition, p.prix_m2)
        a2 == Echafaudage(a1, g, traiter_chiens_assis, nb_chiens_assis, niveaux)
        a3 == ReprisesLourdes(a2, g, opts)
        a4 == ApplyOptionalRules(a3, OptionalRules, opts)
        a5 == ChiensAssis(a4, traiter_chiens_assis, nb_chiens_assis)
        a6 == Nettoyage(a5)
    IN  [lignes |-> a6.lignes, total |-> AmtRound(a6.total)]

----------------------------------------------------------------------------
(* app.py, main, step 4: the Geometry built from the dimensions             *)

\* nb_facades = 4 if dims["building_type"] == "PAVILLON" else 1 (first: always 4)
NbFacadesAlways4(building_type) == 4 + 0 * Len(building_type)

NbFacades(building_type) == IF building_type = "PAVILLON" THEN 4 ELSE 1

\* hauteur_par_niveau and largeur are in tenths of a metre
GeometryFromDims(dims) ==
    LET niveaux == dims.niveaux
        hpn == dims.hauteur_par_niveau
        largeur == dims.largeur
        hauteur == niveaux * hpn
        nb_facades == NbFacades(dims.building_type)
        perimetre == largeur * nb_facades
        surface == hauteur * perimetre
    IN  [hauteur |-> hauteur, surface_facades |-> surface,
         perimetre |-> perimetre, nb_facades |-> nb_facades]

----------------------------------------------------------------------------
(* The inputs                                                               *)

\* the number of keys set or removed in a starting options bag
MaxEdits == 1

OptionKeys ==
    {"is_haussmann", "traiter_chiens_assis", "nb_chiens_assis", "niveaux",
     "surface_reprises_lourdes_detectee", "surface_reprises_enduit_detectee",
     "ml_microfissures", "ml_fissures_ouvertes", "nb_fenetres_petites",
     "nb_fenetres_grandes", "ml_garde_corps_fer_forge", "ml_garde_corps_balcon",
     "ml_descente_ep", "ml_bandeaux", "ml_zinguerie", "nb_grilles_aeration",
     "ml_grillage_protection", "ml_grillage_galva"}

FlagKeys == {"is_haussmann", "traiter_chiens_assis"}

CountKeys == {"nb_chiens_assis", "nb_fenetres_petites", "nb_fenetres_grandes",
              "nb_grilles_aeration"}

\* the values a key takes (flags are 0/1 as Python's False/True; lengths and
\* areas in hundredths)
Values(k) ==
    IF k \in FlagKeys THEN {0, 1}
    ELSE IF k = "niveaux" THEN NiveauxValues
    ELSE IF k = "nb_grilles_aeration" THEN {0 - 1, 0, 3}
    ELSE IF k \in CountKeys THEN {0, 3}
    ELSE IF k = "surface_reprises_lourdes_detectee" THEN {0, 507}
    ELSE IF k = "ml_microfissures" THEN {0 - 50, 0, 1231}
    ELSE {0, 1231}

EmptyBag == [k \in {} |-> 0]

ZeroBag == [k \in OptionKeys |-> 0]

FullBag ==
    [k \in OptionKeys |->
        IF k \in FlagKeys THEN 1
        ELSE IF k = "niveaux" THEN 3
        ELSE IF k \in CountKeys THEN 3
        ELSE IF k = "surface_reprises_lourdes_detectee" THEN 507
        ELSE 1231]

Put(b, k, v) == [x \in (DOMAIN b) \cup {k} |-> IF x = k THEN v ELSE b[x]]

Remove(b, K) == [x \in (DOMAIN b) \ K |-> b[x]]

Edit1(b) ==
    {b} \cup {Put(b, k, v) : k \in OptionKeys, v \in UNION {Values(x) : x \in OptionKeys}}
        \cup {Remove(b, {k}) : k \in DOMAIN b}

WellValued(b) == \A k \in DOMAIN b : b[k] \in Values(k)

RECURSIVE Edited(_, _)
Edited(S, n) ==
    IF n = 0 THEN S
    ELSE Edited({b \in UNION {Edit1(x) : x \in S} : WellValued(b)}, n - 1)

Bags == Edited({EmptyBag, ZeroBag, FullBag}, MaxEdits)

Geometry(hauteur, perimetre, nb_facades) ==
    [hauteur |-> hauteur, surface_facades |-> hauteur * perimetre,
     perimetre |-> perimetre, nb_facades |-> nb_facades]

\* hauteur and perimetre in tenths of a metre: surfaces -9, 0, 0.04, 8.99 and 225 m2
Geometries ==
    {Geometry(30, 0 - 30, 1), Geometry(30, 0, 1), Geometry(2, 2, 1),
     Geometry(29, 31, 1), Geometry(150, 150, 1)}

SupportKeys == {"ENDUIT_CIMENT", "PIERRE_TAILLE", "pierre_taille", "BRIQUE"}

\* conditions: known ones in lower case, one in upper case, an unknown one
Etats == {"bon", "moyen", "DEGRADE", "ruine"}

\* the answers of the dimensions form (ui.render_building_dimensions_form)
DimsSet ==
    [building_type : {"IMMEUBLE", "PAVILLON"},
     support_key : {"PLATRE_ANCIEN", "PIERRE_TAILLE"},
     niveaux : {1, 5, 20},
     largeur : {30, 150, 800},
     hauteur_par_niveau : {25, 30, 40}]

----------------------------------------------------------------------------
(* app.py: init_state, the defaults of a new session                        *)

\* the defaults of the slices of the wizard
init_wizard ==
    /\ step = 0
    /\ addr_label = None
    /\ coords = NoneDict
    /\ osm_ctx = NoneDict
    /\ facade_state = NoneDict
    /\ points_form = NoneDict
    /\ urgency = NoneDict
    /\ contact = NoneDict
    /\ pdf_bytes = None

init_state ==
    /\ init_wizard
    /\ lignes = << >>
    /\ total = 0
    /\ last_geom = NoneDict
    /\ building_dims = NoneDict

----------------------------------------------------------------------------
(* Calls of build_pricing on every input                                    *)

Init ==
    /\ geom \in Geometries
    /\ support_key \in SupportKeys
    /\ options \in Bags
    /\ etat_facade \in Etats
    /\ lignes = << >>
    /\ total = 0
    /\ pc = "args"
    /\ notice = None
    /\ before = [label |-> None, dims |-> NoneDict]
    /\ lookups = NoLookup
    /\ building_dims = NoneDict
    /\ last_geom = NoneDict
    /\ init_wizard

\* lignes, total = build_pricing(geom, support_key, options, etat_facade)
Call ==
    /\ pc = "args"
    /\ LET r == build_pricing(geom, support_key, options, etat_facade)
       IN  /\ lignes' = r.lignes
           /\ total' = r.total
    /\ pc' = "returned"
    /\ notice' = None
    /\ before' = [label |-> addr_label, dims |-> building_dims]
    /\ lookups' = NoLookup
    /\ UNCHANGED <<geom, support_key, options, etat_facade, building_dims, last_geom, wizard>>

Next == Call

Spec == Init /\ [][Next]_vars

----------------------------------------------------------------------------
(* The geometry built at the result step, on every answer of the form       *)

InitGeom ==
    /\ building_dims \in DimsSet
    /\ last_geom = NoneDict
    /\ pc = "dims"
    /\ notice = None
    /\ before = [label |-> None, dims |-> NoneDict]
    /\ lookups = NoLookup
    /\ geom = NoneDict
    /\ support_key = None
    /\ options = EmptyBag
    /\ etat_facade = None
    /\ lignes = << >>
    /\ total = 0
    /\ init_wizard

\* geom = Geometry(...); st.session_state.last_geom = geom
BuildGeometry ==
    /\ pc = "dims"
    /\ last_geom' = GeometryFromDims(building_dims)
    /\ pc' = "geom"
    /\ notice' = None
    /\ before' = [label |-> addr_label, dims |-> building_dims]
    /\ lookups' = NoLookup
    /\ UNCHANGED <<geom, support_key, options, etat_facade, lignes, total, building_dims, wizard>>

NextGeom == BuildGeometry

SpecGeom == InitGeom /\ [][NextGeom]_vars

----------------------------------------------------------------------------
(* app.py, main: the wizard.  A state is the session after one run of the   *)
(* script; an action is one run started by a click: the handler of the      *)
(* clicked button up to st.rerun() or to the end of the script.  pc tells   *)
(* what the run did: "page" (it rendered or changed the page), "error" (it  *)
(* refused the click with st.error / st.warning), "returned" (build_pricing *)
(* returned in it), "redirect" (the guard of its step sent it to another    *)
(* step).  A widget that is not rendered loses its value, so a form that is *)
(* shown again offers any answer.                                           *)
(*                                                                          *)
(* Three variables record what a run met, for the properties: notice is the *)
(* message of the e-mail dispatch ("info": settings incomplete, "success",  *)
(* "error": the send raised), lookups the outcomes of the address and the   *)
(* context lookups of the address step, before the address label and the    *)
(* dimensions the session held when the run started.                        *)
(*                                                                          *)
(* geom, support_key, options and etat_facade hold the arguments of the     *)
(* last call of build_pricing.  main passes the condition under the keyword *)
(* facade_state; it is the fourth argument of build_pricing.                *)

\* get_address_suggestions: the candidates {label, lat, lon} (coordinates in
\* 1/100 degree); the label is d.get("display_name", ""), empty for an item
\* without display_name
Suggestions ==
    {[label |-> "12 rue de la Paix 75002 Paris", lat |-> 4887, lon |-> 233],
     [label |-> "3 allee des Tilleuls 94300 Vincennes", lat |-> 4885, lon |-> 244],
     [label |-> "", lat |-> 4884, lon |-> 235]}

\* the address lookup: the query is shorter than three characters, the request
\* fails, or candidates are found
AddressLookups == {"short", "failed", "found"}

\* get_address_suggestions: [] on a short query or a failed request
get_address_suggestions(lookup) == IF lookup = "found" THEN Suggestions ELSE {}

\* ui.render_address_block: selected_obj is the candidate picked in the list,
\* None when no list is shown
render_address_block(suggestions) ==
    IF suggestions = {} THEN {NoneDict} ELSE suggestions

\* fetch_osm_context's _minimal() (a key that holds None is left out)
Minimal == [building_type |-> "IMMEUBLE", has_cour |-> 0, is_haussmann_suspected |-> 0]

\* fetch_osm_context: _minimal(), or the context of a way (lengths in tenths
\* of a metre)
OsmContexts ==
    {Minimal,
     [building_type |-> "PAVILLON", facade_rue_m |-> 150, facade_cour_m |-> 150,
      depth_m |-> 80, has_cour |-> 1, is_haussmann_suspected |-> 0]}

\* the context lookup: the request fails, the answer cannot be read and the
\* function raises, or a way is found
ContextLookups == {"failed", "raised", "found"}

\* fetch_osm_context on a lookup that does not raise (first: a failed request
\* answers like a found way)
fetch_osm_context_found(lookup) == OsmContexts \ {Minimal}

fetch_osm_context(lookup) ==
    IF lookup = "failed" THEN {Minimal} ELSE OsmContexts \ {Minimal}

\* ui.render_building_dimensions_form: the answers the wizard model offers
FormDims ==
    {d \in DimsSet :
        /\ d.largeur = 150
        /\ d.hauteur_par_niveau = 30
        /\ \/ d.building_type = "IMMEUBLE" /\ d.support_key = "PIERRE_TAILLE" /\ d.niveaux = 5
           \/ d.building_type = "PAVILLON" /\ d.support_key = "PLATRE_ANCIEN" /\ d.niveaux = 1}

\* ui.render_facade_state_form
render_facade_state_form ==
    {[etat_facade |-> "MOYEN", etat_facade_label |-> "Quelques defauts",
      porte_type |-> "Aucune"],
     [etat_facade |-> "DEGRADE", etat_facade_label |-> "Tres abimee",
      porte_type |-> "Porte d'entree"]}

\* ui.render_points_singuliers_form (lg_gardes_corps in hundredths)
render_points_singuliers_form ==
    {[has_commerce_rdc |-> 0, has_bandeaux |-> 0, has_appuis |-> 0,
      has_toiture_debord |-> 0, has_acroteres |-> 0, nb_descente_ep |-> 2,
      has_gardes_corps |-> 0, lg_gardes_corps |-> 0],
     [has_commerce_rdc |-> 1, has_bandeaux |-> 1, has_appuis |-> 1,
      has_toiture_debord |-> 0, has_acroteres |-> 0, nb_descente_ep |-> 2,
      has_gardes_corps |-> 1, lg_gardes_corps |-> 400]}

\* ui.render_urgency_form: urgent = delai_mois <= 3
render_urgency_form ==
    {[delai_mois |-> d, urgent |-> IF d <= 3 THEN 1 ELSE 0] : d \in {2, 6}}

\* the e-mail addresses typed in the contact form, as strings of characters
Emails == {<< >>, <<"j", "d">>, <<"j", "d", "@", "x", ".", "f", "r">>}

\* ui.render_contact_form: email_valid = bool(email and "@" in email)
\* (first: bool(email))
email_valid_nonempty(email) == IF Len(email) > 0 THEN 1 ELSE 0

email_valid(email) ==
    IF Len(email) > 0 /\ (\E i \in 1..Len(email) : email[i] = "@") THEN 1 ELSE 0

\* ui.render_contact_form, the answers once the form's button has or has not been pressed
render_contact_form(email, submitted) ==
    [submitted |-> IF submitted = 1 /\ email_valid(email) = 1 THEN 1 ELSE 0,
     raw_submitted |-> submitted,
     email_valid |-> email_valid(email),
     email |-> email]

\* generate_pdf_estimation: the bytes of the document, or None when it fails
PdfOutcomes == {"%PDF", None}

\* options = points_form.copy() with porte_entree and porte_cochere added
\* (first: the form's bandeaux become a length build_pricing reads)
PricingOptionsBandeaux(points, state) ==
    Put(Put(Put(points, "porte_entree", IF state.porte_type = "Porte d'entree" THEN 1 ELSE 0),
            "porte_cochere", IF state.porte_type = "Porte cochere" THEN 1 ELSE 0),
        "ml_bandeaux", points.has_bandeaux * 1000)

PricingOptions(points, state) ==
    Put(Put(points, "porte_entree", IF state.porte_type = "Porte d'entree" THEN 1 ELSE 0),
        "porte_cochere", IF state.porte_type = "Porte cochere" THEN 1 ELSE 0)

InitWizard ==
    /\ init_state
    /\ geom = NoneDict
    /\ support_key = None
    /\ options = EmptyBag
    /\ etat_facade = None
    /\ pc = "page"
    /\ notice = None
    /\ before = [label |-> None, dims |-> NoneDict]
    /\ lookups = NoLookup

\* the slices no handler but the address step's, the result step's submission
\* and the new estimation write
args == <<geom, support_key, options, etat_facade>>

result == <<lignes, total, last_geom, pdf_bytes, contact>>

\* step 0, "reset des elements de calcul" (first: the stored result is kept)
Step0ResetKeepsResult ==
    /\ building_dims' = NoneDict
    /\ facade_state' = NoneDict
    /\ points_form' = NoneDict
    /\ urgency' = NoneDict
    /\ contact' = NoneDict
    /\ pdf_bytes' = None
    /\ UNCHANGED <<lignes, total, last_geom>>

Step0Reset ==
    /\ lignes' = << >>
    /\ total' = 0
    /\ last_geom' = NoneDict
    /\ building_dims' = NoneDict
    /\ facade_state' = NoneDict
    /\ points_form' = NoneDict
    /\ urgency' = NoneDict
    /\ contact' = NoneDict
    /\ pdf_bytes' = None

\* step 0, button "Analyser le batiment": selected is the candidate picked in
\* the list, or NoneDict when no candidate is offered
\* (first: the reset is skipped when the picked address is the stored one)
Step0AnalyseKeepsSame ==
    /\ step = 0
    /\ \E address \in AddressLookups, context \in ContextLookups :
       \E selected \in render_address_block(get_address_suggestions(address)) :
         IF selected = NoneDict
         THEN /\ pc' = "error"
              /\ notice' = None
              /\ before' = [label |-> addr_label, dims |-> building_dims]
              /\ lookups' = [address |-> address, context |-> None]
              /\ UNCHANGED <<wizard, args, lignes, total, last_geom, building_dims>>
         ELSE /\ addr_label' = selected.label
              /\ coords' = [lat |-> selected.lat, lon |-> selected.lon]
              /\ IF context = "raised"
                 THEN osm_ctx' = NoneDict
                 ELSE osm_ctx' \in fetch_osm_context(context)
              /\ IF selected.label = addr_label
                 THEN UNCHANGED <<result, building_dims, facade_state, points_form,
                                  urgency>>
                 ELSE Step0Reset
              /\ step' = 1
              /\ pc' = "page"
              /\ notice' = None
              /\ before' = [label |-> addr_label, dims |-> building_dims]
              /\ lookups' = [address |-> address, context |-> context]
              /\ UNCHANGED args

Step0Analyse ==
    /\ step = 0
    /\ \E address \in AddressLookups, context \in ContextLookups :
       \E selected \in render_address_block(get_address_suggestions(address)) :
         IF selected = NoneDict
         THEN /\ pc' = "error"
              /\ notice' = None
              /\ before' = [label |-> addr_label, dims |-> building_dims]
              /\ lookups' = [address |-> address, context |-> None]
              /\ UNCHANGED <<wizard, args, lignes, total, last_geom, building_dims>>
         ELSE /\ addr_label' = selected.label
              /\ coords' = [lat |-> selected.lat, lon |-> selected.lon]
              /\ IF context = "raised"
                 THEN osm_ctx' = NoneDict
                 ELSE osm_ctx' \in fetch_osm_context(context)
              /\ Step0Reset
              /\ step' = 1
              /\ pc' = "page"
              /\ notice' = None
              /\ before' = [label |-> addr_label, dims |-> building_dims]
              /\ lookups' = [address |-> address, context |-> context]
              /\ UNCHANGED args

\* step 1: if not coords or not addr_label
Step1Missing == coords = NoneDict \/ addr_label \in {None, ""}

Step1Redirect ==
    /\ step = 1
    /\ Step1Missing
    /\ step' = 0
    /\ pc' = "redirect"
    /\ notice' = None
    /\ before' = [label |-> addr_label, dims |-> building_dims]
    /\ lookups' = NoLookup
    /\ UNCHANGED <<addr_label, coords, osm_ctx, facade_state, points_form, urgency,
                   args, result, building_dims>>

\* step 1, button "Etape suivante : etat de la facade"
Step1Next ==
    /\ step = 1
    /\ ~Step1Missing
    /\ \E dims \in FormDims : building_dims' = dims
    /\ step' = 2
    /\ pc' = "page"
    /\ notice' = None
    /\ before' = [label |-> addr_label, dims |-> building_dims]
    /\ lookups' = NoLookup
    /\ UNCHANGED <<addr_label, coords, osm_ctx, facade_state, points_form, urgency,
                   args, result>>

\* step 1, button "Retour"
Step1Back ==
    /\ step = 1
    /\ ~Step1Missing
    /\ step' = 0
    /\ pc' = "page"
    /\ notice' = None
    /\ before' = [label |-> addr_label, dims |-> building_dims]
    /\ lookups' = NoLookup
    /\ UNCHANGED <<addr_label, coords, osm_ctx, facade_state, points_form, urgency,
                   args, result, building_dims>>

\* step 2: if not st.session_state.building_dims
Step2Missing == building_dims = NoneDict

Step2Redirect ==
    /\ step = 2
    /\ Step2Missing
    /\ step' = 1
    /\ pc' = "redirect"
    /\ notice' = None
    /\ before' = [label |-> addr_label, dims |-> building_dims]
    /\ lookups' = NoLookup
    /\ UNCHANGED <<addr_label, coords, osm_ctx, facade_state, points_form, urgency,
                   args, result, building_dims>>

\* step 2, button "Etape suivante : details & urgence" (first: to the result step)
Step2NextSkips ==
    /\ step = 2
    /\ ~Step2Missing
    /\ facade_state' \in render_facade_state_form
    /\ step' = 4
    /\ pc' = "page"
    /\ notice' = None
    /\ before' = [label |-> addr_label, dims |-> building_dims]
    /\ lookups' = NoLookup
    /\ UNCHANGED <<addr_label, coords, osm_ctx, points_form, urgency,
                   args, result, building_dims>>

Step2Next ==
    /\ step = 2
    /\ ~Step2Missing
    /\ facade_state' \in render_facade_state_form
    /\ step' = 3
    /\ pc' = "page"
    /\ notice' = None
    /\ before' = [label |-> addr_label, dims |-> building_dims]
    /\ lookups' = NoLookup
    /\ UNCHANGED <<addr_label, coords, osm_ctx, points_form, urgency,
                   args, result, building_dims>>

\* step 2, button "Retour"
Step2Back ==
    /\ step = 2
    /\ ~Step2Missing
    /\ step' = 1
    /\ pc' = "page"
    /\ notice' = None
    /\ before' = [label |-> addr_label, dims |-> building_dims]
    /\ lookups' = NoLookup
    /\ UNCHANGED <<addr_label, coords, osm_ctx, facade_state, points_form, urgency,
                   args, result, building_dims>>

\* step 3: if not dims or not facade_state
Step3Missing == building_dims = NoneDict \/ facade_state = NoneDict

Step3Redirect ==
    /\ step = 3
    /\ Step3Missing
    /\ step' = 1
    /\ pc' = "redirect"
    /\ notice' = None
    /\ before' = [label |-> addr_label, dims |-> building_dims]
    /\ lookups' = NoLookup
    /\ UNCHANGED <<addr_label, coords, osm_ctx, facade_state, points_form, urgency,
                   args, result, building_dims>>

\* step 3, button "Etape suivante : coordonnees"
Step3Next ==
    /\ step = 3
    /\ ~Step3Missing
    /\ points_form' \in render_points_singuliers_form
    /\ urgency' \in render_urgency_form
    /\ step' = 4
    /\ pc' = "page"
    /\ notice' = None
    /\ before' = [label |-> addr_label, dims |-> building_dims]
    /\ lookups' = NoLookup
    /\ UNCHANGED <<addr_label, coords, osm_ctx, facade_state,
                   args, result, building_dims>>

\* step 3, button "Retour" (first: the answers of the step left are dropped)
Step3BackClears ==
    /\ step = 3
    /\ ~Step3Missing
    /\ step' = 2
    /\ pc' = "page"
    /\ notice' = None
    /\ before' = [label |-> addr_label, dims |-> building_dims]
    /\ lookups' = NoLookup
    /\ points_form' = NoneDict
    /\ urgency' = NoneDict
    /\ UNCHANGED <<addr_label, coords, osm_ctx, facade_state,
                   args, result, building_dims>>

Step3Back ==
    /\ step = 3
    /\ ~Step3Missing
    /\ step' = 2
    /\ pc' = "page"
    /\ notice' = None
    /\ before' = [label |-> addr_label, dims |-> building_dims]
    /\ lookups' = NoLookup
    /\ UNCHANGED <<addr_label, coords, osm_ctx, facade_state, points_form, urgency,
                   args, result, building_dims>>

\* step 4: if not (dims and facade_state and points_form and addr_label and urgency)
Step4Missing ==
    \/ building_dims = NoneDict
    \/ facade_state = NoneDict
    \/ points_form = NoneDict
    \/ addr_label \in {None, ""}
    \/ urgency = NoneDict

Step4Redirect ==
    /\ step = 4
    /\ Step4Missing
    /\ step' = 1
    /\ pc' = "redirect"
    /\ notice' = None
    /\ before' = [label |-> addr_label, dims |-> building_dims]
    /\ lookups' = NoLookup
    /\ UNCHANGED <<addr_label, coords, osm_ctx, facade_state, points_form, urgency,
                   args, result, building_dims>>

\* the mail server as the run finds it: settings missing, a send that raises,
\* a send that succeeds
SmtpStates == {"incomplete", "refused", "accepted"}

\* send_notification_email: st.info and return when the settings are
\* incomplete, else st.success after the send or st.error when it raises
send_notification_email(smtp) ==
    IF smtp = "incomplete" THEN "info"
    ELSE IF smtp = "accepted" THEN "success"
    ELSE "error"

\* step 4, the form's button "Obtenir mon estimation": the geometry, the
\* pricing, the PDF and the notification (send_notification_email writes no
\* slice and catches its failures; the run shows its message)
\* (first: the PDF is generated before anything is stored, and a missing PDF
\* ends the run)
Step4SubmitPdfFirst ==
    /\ step = 4
    /\ ~Step4Missing
    /\ \E email \in Emails, pdf \in PdfOutcomes, smtp \in SmtpStates :
         LET form == render_contact_form(email, 1)
             g == GeometryFromDims(building_dims)
             opts == PricingOptions(points_form, facade_state)
             r == build_pricing(g, building_dims.support_key, opts,
                                facade_state.etat_facade)
         IN  IF form.submitted = 1 /\ pdf # None
             THEN /\ contact' = form
                  /\ last_geom' = g
                  /\ geom' = g
                  /\ support_key' = building_dims.support_key
                  /\ options' = opts
                  /\ etat_facade' = facade_state.etat_facade
                  /\ lignes' = r.lignes
                  /\ total' = r.total
                  /\ pdf_bytes' = pdf
                  /\ pc' = "returned"
                  /\ notice' = send_notification_email(smtp)
                  /\ before' = [label |-> addr_label, dims |-> building_dims]
                  /\ lookups' = NoLookup
                  /\ UNCHANGED <<step, addr_label, coords, osm_ctx, facade_state,
                                 points_form, urgency, building_dims>>
             ELSE /\ pc' = IF form.submitted = 1 THEN "returned" ELSE "error"
                  /\ notice' = None
                  /\ before' = [label |-> addr_label, dims |-> building_dims]
                  /\ lookups' = NoLookup
                  /\ UNCHANGED <<wizard, args, lignes, total, last_geom, building_dims>>

Step4Submit ==
    /\ step = 4
    /\ ~Step4Missing
    /\ \E email \in Emails, pdf \in PdfOutcomes, smtp \in SmtpStates :
         LET form == render_contact_form(email, 1)
             g == GeometryFromDims(building_dims)
             opts == PricingOptions(points_form, facade_state)
             r == build_pricing(g, building_dims.support_key, opts,
                                facade_state.etat_facade)
         IN  IF form.submitted = 1
             THEN /\ contact' = form
                  /\ last_geom' = g
                  /\ geom' = g
                  /\ support_key' = building_dims.support_key
                  /\ options' = opts
                  /\ etat_facade' = facade_state.etat_facade
                  /\ lignes' = r.lignes
                  /\ total' = r.total
                  /\ pdf_bytes' = pdf
                  /\ pc' = "returned"
                  /\ notice' = send_notification_email(smtp)
                  /\ before' = [label |-> addr_label, dims |-> building_dims]
                  /\ lookups' = NoLookup
                  /\ UNCHANGED <<step, addr_label, coords, osm_ctx, facade_state,
                                 points_form, urgency, building_dims>>
             ELSE /\ pc' = "error"
                  /\ notice' = None
                  /\ before' = [label |-> addr_label, dims |-> building_dims]
                  /\ lookups' = NoLookup
                  /\ UNCHANGED <<wizard, args, lignes, total, last_geom, building_dims>>

\* step 4, button "Modifier les etapes precedentes"
Step4Back ==
    /\ step = 4
    /\ ~Step4Missing
    /\ step' = 3
    /\ pc' = "page"
    /\ notice' = None
    /\ before' = [label |-> addr_label, dims |-> building_dims]
    /\ lookups' = NoLookup
    /\ UNCHANGED <<addr_label, coords, osm_ctx, facade_state, points_form, urgency,
                   args, result, building_dims>>

\* step 4, button "Nouvelle estimation": every key is deleted and the next
\* run's init_state sets the defaults again (first: the result, the PDF and
\* the contact are kept)
Step4NewEstimationKeepsResult ==
    /\ step = 4
    /\ ~Step4Missing
    /\ step' = 0
    /\ addr_label' = None
    /\ coords' = NoneDict
    /\ osm_ctx' = NoneDict
    /\ building_dims' = NoneDict
    /\ facade_state' = NoneDict
    /\ points_form' = NoneDict
    /\ urgency' = NoneDict
    /\ pc' = "page"
    /\ notice' = None
    /\ before' = [label |-> addr_label, dims |-> building_dims]
    /\ lookups' = NoLookup
    /\ UNCHANGED <<args, result>>

Step4NewEstimation ==
    /\ step = 4
    /\ ~Step4Missing
    /\ step' = 0
    /\ addr_label' = None
    /\ coords' = NoneDict
    /\ osm_ctx' = NoneDict
    /\ lignes' = << >>
    /\ total' = 0
    /\ last_geom' = NoneDict
    /\ building_dims' = NoneDict
    /\ facade_state' = NoneDict
    /\ points_form' = NoneDict
    /\ urgency' = NoneDict
    /\ contact' = NoneDict
    /\ pdf_bytes' = None
    /\ pc' = "page"
    /\ notice' = None
    /\ before' = [label |-> addr_label, dims |-> building_dims]
    /\ lookups' = NoLookup
    /\ UNCHANGED args

NextWizard ==
    \/ Step0Analyse
    \/ Step1Next
    \/ Step1Back
    \/ Step2Next
    \/ Step2Back
    \/ Step3Next
    \/ Step3Back
    \/ Step4Submit
    \/ Step4Back
    \/ Step4NewEstimation

SpecWizard == InitWizard /\ [][NextWizard]_vars

----------------------------------------------------------------------------
(* The guards of the steps on a session that holds any part of the answers: *)
(* a step entered while a slice it needs is missing                         *)

InitEntry ==
    /\ step \in 0..4
    /\ \E selected \in Suggestions \cup {NoneDict} :
         IF selected = NoneDict
         THEN addr_label = None /\ coords = NoneDict
         ELSE /\ addr_label = selected.label
              /\ coords = [lat |-> selected.lat, lon |-> selected.lon]
    /\ osm_ctx = NoneDict
    /\ building_dims \in FormDims \cup {NoneDict}
    /\ facade_state \in render_facade_state_form \cup {NoneDict}
    /\ points_form \in render_points_singuliers_form \cup {NoneDict}
    /\ urgency \in render_urgency_form \cup {NoneDict}
    /\ contact = NoneDict
    /\ pdf_bytes = None
    /\ lignes = << >>
    /\ total = 0
    /\ last_geom = NoneDict
    /\ geom = NoneDict
    /\ support_key = None
    /\ options = EmptyBag
    /\ etat_facade = None
    /\ pc = "page"
    /\ notice = None
    /\ before = [label |-> None, dims |-> NoneDict]
    /\ lookups = NoLookup

NextEntry ==
    \/ Step1Redirect
    \/ Step2Redirect
    \/ Step3Redirect
    \/ Step4Redirect

SpecEntry == InitEntry /\ [][NextEntry]_vars

\* ui.render_building_dimensions_form: the values of support_label_to_key
FormSupportKeys == {"PLATRE_ANCIEN", "PIERRE_TAILLE", "BRIQUE", "BETON", "PAVILLON_ENDUIT"}

\* ui.render_facade_state_form: the values of etat_facade
FormEtats == {"BON", "MOYEN", "DEGRADE"}

\* calls of build_pricing on the geometries of the form's dimensions, with the
\* form's support keys, an unknown key and the empty key, and the form's
\* conditions among others
InitFinish ==
    /\ init_state
    /\ geom \in {GeometryFromDims(d) : d \in FormDims}
    /\ support_key \in FormSupportKeys \cup {"TORCHIS", ""}
    /\ etat_facade \in FormEtats \cup {"bon", "degrade", "ruine", ""}
    /\ options = EmptyBag
    /\ pc = "args"
    /\ notice = None
    /\ before = [label |-> None, dims |-> NoneDict]
    /\ lookups = NoLookup

SpecFinish == InitFinish /\ [][Next]_vars

\* the result step shows the report: if st.session_state.lignes and
\* st.session_state.last_geom is not None
Displayed == step = 4 /\ ~Step4Missing /\ lignes # << >> /\ last_geom # NoneDict

----------------------------------------------------------------------------
(* Helpers of the properties                                                *)

Returned == pc = "returned"

Surface == geom.surface_facades

Codes(l) == [i \in 1..Len(l) |-> l[i].code]

LinesOf(l, code) == SelectSeq(l, LAMBDA x : x.code = code)

RECURSIVE SumMontants(_)
SumMontants(l) == IF l = << >> THEN 0 ELSE Head(l).montant + SumMontants(Tail(l))

AllZero(opts) == \A k \in DOMAIN opts : opts[k] = 0

NonNegative(opts) == \A k \in DOMAIN opts : opts[k] >= 0

KnownSupport(support) == Upper(support) \in supports_enduit \cup supports_mineral

KnownEtat(etat) == etat # "" /\ Lower(etat) \in {"bon", "moyen", "degrade"}

\* the sets of at most two keys of a bag
SmallKeySets(opts) ==
    {{}} \cup {{a, b} : a \in DOMAIN opts, b \in DOMAIN opts}

----------------------------------------------------------------------------
(* Properties                                                               *)

\* C1: for every surface >= 0, the returned total equals the sum of the
\* 'montant' fields of the returned lines (the displayed amounts sum exactly
\* to the displayed total).
C1_TotalIsSumOfMontants ==
    (Returned /\ Surface >= 0) => total = SumMontants(lignes)

\* C2 (as stated): with a positive surface and an options bag whose values
\* are all zero/false (or empty), only the mandatory lines are returned
\* (render, scaffolding, cleanup) and in particular no repair line.
C2_OnlyMandatoryLines ==
    (Returned /\ Surface > 0 /\ AllZero(options))
        => \A i \in 1..Len(lignes) : lignes[i].code \in {"RAVAL", "ECHAF", "NETTOYAGE"}

\* C2 (amended): with a positive surface and an options bag whose values are
\* all zero/false (or empty), the lines are exactly render, scaffolding, the
\* heavy-repair line on the heuristic 8% of the surface, and cleanup.
C2_ZeroOptionFloor ==
    (Returned /\ Surface > 0 /\ AllZero(options))
        => /\ Codes(lignes) = <<"RAVAL", "ECHAF", "MAC_RL", "NETTOYAGE">>
           /\ lignes[3].quantite = RoundDiv(8 * Surface, 1000)
           /\ lignes[3].montant = RoundDiv(8 * Surface * 45, 100)

C2_Witness ==
    Returned /\ Surface = 22500 /\ options = ZeroBag /\ Len(lignes) = 4

\* C3: every returned line has quantity > 0 and unit price > 0, also when
\* the surface is 0.
C3_PositiveLines ==
    (Returned /\ Surface >= 0)
        => \A i \in 1..Len(lignes) : lignes[i].quantite > 0 /\ lignes[i].pu > 0

\* C4: build_pricing returns no priced result when the support key is
\* unknown, the condition is outside {bon, moyen, degrade} or the surface is
\* negative.
C4_InvalidInputRejected ==
    (~KnownSupport(support_key) \/ ~KnownEtat(etat_facade) \/ Surface < 0)
        => ~Returned

\* C5: removing keys from a bag of non-negative values never makes the
\* total larger, also when the removed key is 'niveaux' while dormer
\* treatment is requested.
C5_SparseBagSmallerTotal ==
    (Returned /\ Surface >= 0 /\ NonNegative(options))
        => \A K \in SmallKeySets(options) :
              build_pricing(geom, support_key, Remove(options, K), etat_facade).total <= total

\* C6: the heavy-repair line is priced on max(detected area, 8% of the
\* surface): a detected area below the heuristic gives the same repair line
\* as no detected area, a larger one gives a line for that area.
C6_RepairFloor ==
    Returned =>
        LET detectee == Get(options, "surface_reprises_lourdes_detectee", 0)
            sans == build_pricing(geom, support_key,
                                  Remove(options, {"surface_reprises_lourdes_detectee"}),
                                  etat_facade).lignes
            rl == LinesOf(lignes, "MAC_RL")
        IN  /\ Len(rl) <= 1
            /\ (100 * detectee <= 8 * Surface) => rl = LinesOf(sans, "MAC_RL")
            /\ (detectee > 0 /\ 100 * detectee > 8 * Surface) =>
                   /\ Len(rl) = 1
                   /\ rl[1].quantite = RoundDiv(detectee, 10)
                   /\ rl[1].montant = detectee * 45
            /\ (Surface > 0 /\ detectee >= 0) =>
                   /\ Len(rl) = 1
                   /\ 100 * rl[1].montant >= 8 * Surface * 45 - 50
                   /\ rl[1].montant >= detectee * 45

C6_Witness ==
    /\ Returned
    /\ "surface_reprises_lourdes_detectee" \in DOMAIN options
    /\ options["surface_reprises_lourdes_detectee"] > 0
    /\ 100 * options["surface_reprises_lourdes_detectee"] < 8 * Surface
    /\ LinesOf(lignes, "MAC_RL") # << >>

\* C7: for fixed support, condition and options, the total never decreases
\* when the surface grows (surfaces >= 0), also across the point where the
\* 8% floor overtakes a detected repair area.
C7_MonotoneInSurface ==
    (Returned /\ Surface >= 0) =>
        \A s2 \in {g.surface_facades : g \in Geometries} \cup {Surface + 1} :
            s2 >= Surface =>
                build_pricing([geom EXCEPT !.surface_facades = s2], support_key,
                              options, etat_facade).total >= total

C7_Witness ==
    /\ Returned
    /\ Surface = 899
    /\ Get(options, "surface_reprises_lourdes_detectee", 0) = 507
    /\ 100 * 507 > 8 * Surface
    /\ 100 * 507 < 8 * 22500

\* C8: the Geometry built at the result step has surface = hauteur x
\* perimetre and hauteur = niveaux x hauteur_par_niveau; for an IMMEUBLE the
\* perimeter is the street width and nb_facades = 1; 5 levels x 3.0 m x
\* 15.0 m give 15 / 15 / 225.
C8_GeometryInvariant ==
    (pc = "geom") =>
        /\ last_geom.surface_facades = last_geom.hauteur * last_geom.perimetre
        /\ last_geom.hauteur = building_dims.niveaux * building_dims.hauteur_par_niveau
        /\ (building_dims.building_type = "IMMEUBLE") =>
              /\ last_geom.perimetre = building_dims.largeur
              /\ last_geom.nb_facades = 1
        /\ (/\ building_dims.building_type = "IMMEUBLE"
            /\ building_dims.niveaux = 5
            /\ building_dims.hauteur_par_niveau = 30
            /\ building_dims.largeur = 150) =>
              /\ last_geom.hauteur = 150
              /\ last_geom.perimetre = 150
              /\ last_geom.surface_facades = 22500

C8_Witness ==
    /\ pc = "geom"
    /\ building_dims.building_type = "IMMEUBLE"
    /\ building_dims.niveaux = 5
    /\ building_dims.hauteur_par_niveau = 30
    /\ building_dims.largeur = 150
    /\ last_geom.surface_facades = 22500

\* C9: for a geometry of positive surface (scenario A's 225 m2 among them)
\* and the same options, stone in good condition resolves to a finish other
\* than D3 and its total is strictly lower than the total of rendered
\* cement in degraded condition.
C9_StoneGoodBelowCementDegraded ==
    (Returned /\ Surface > 0 /\ support_key = "PIERRE_TAILLE" /\ etat_facade = "bon") =>
        /\ lignes[1].code = "RAVAL"
        /\ lignes[1].designation # "D3"
        /\ lignes[1].designation \in DOMAIN BASE_FINISH_PRICES
        /\ total < build_pricing(geom, "ENDUIT_CIMENT", options, "degrade").total

C9_Witness ==
    /\ Returned
    /\ Surface = 22500
    /\ support_key = "PIERRE_TAILLE"
    /\ etat_facade = "bon"
    /\ lignes[1].designation = "SILOXANE"

\* the dormer rule fires
DormerRequested(opts) ==
    Get(opts, "traiter_chiens_assis", 0) # 0 /\ Get(opts, "nb_chiens_assis", 0) > 0

\* C10 (as stated): each optional rule emits exactly one line iff its option
\* value is > 0, with the line quantity equal to the supplied value; the
\* dormer line is emitted iff the flag is set and the dormer count is > 0.
C10_OptionalLinesExactQuantity ==
    Returned =>
        /\ \A i \in 1..Len(OptionalRules) :
              LET rule == OptionalRules[i]
                  value == Get(options, rule.key, 0)
                  l == LinesOf(lignes, rule.code)
              IN  /\ Len(l) = (IF value > 0 THEN 1 ELSE 0)
                  /\ (value > 0) =>
                        IF rule.conv = "float" THEN 10 * l[1].quantite = value
                        ELSE l[1].quantite = 10 * value
        /\ Len(LinesOf(lignes, "CHIENS_ASSIS")) = (IF DormerRequested(options) THEN 1 ELSE 0)

\* C10 (amended): each optional rule emits exactly one line iff its option
\* value is > 0; the line quantity is the supplied count, or the supplied
\* length/area rounded to one decimal; the dormer line is emitted iff the
\* flag is set and the dormer count is > 0, with the count as quantity.
C10_OptionalLines ==
    Returned =>
        /\ \A i \in 1..Len(OptionalRules) :
              LET rule == OptionalRules[i]
                  value == Get(options, rule.key, 0)
                  l == LinesOf(lignes, rule.code)
              IN  /\ Len(l) = (IF value > 0 THEN 1 ELSE 0)
                  /\ (value > 0) =>
                        IF rule.conv = "float" THEN l[1].quantite = RoundDiv(value, 10)
                        ELSE l[1].quantite = 10 * value
        /\ Len(LinesOf(lignes, "CHIENS_ASSIS")) = (IF DormerRequested(options) THEN 1 ELSE 0)
        /\ DormerRequested(options) =>
              LinesOf(lignes, "CHIENS_ASSIS")[1].quantite = 10 * options["nb_chiens_assis"]

\* scenario C: 3 large windows, 0 small windows
C10_Witness ==
    /\ Returned
    /\ Get(options, "nb_fenetres_grandes", 0) = 3
    /\ "nb_fenetres_petites" \in DOMAIN options
    /\ options["nb_fenetres_petites"] = 0
    /\ Len(LinesOf(lignes, "FEN_G")) = 1
    /\ LinesOf(lignes, "FEN_G")[1].quantite = 30
    /\ LinesOf(lignes, "FEN_P") = << >>

----------------------------------------------------------------------------
(* The wizard                                                               *)

\* C11: a run that confirms an address (it leaves step 0 forward) stores the
\* label and the coordinates of the selected candidate and leaves the
\* dimensions, the condition, the options, the urgency, the contact, the lines,
\* the total, the geometry and the PDF at their empty values, whatever the
\* session held before; and lines only ever appear in the session by a
\* computation of the result step under the address the session holds, so no
\* result of an earlier address is displayable under the new one.
C11_NewAddressClearsDownstream ==
    [][/\ (step = 0 /\ step' # 0) =>
            /\ [label |-> addr_label', lat |-> coords'.lat, lon |-> coords'.lon]
                   \in Suggestions
            /\ building_dims' = NoneDict
            /\ facade_state' = NoneDict
            /\ points_form' = NoneDict
            /\ urgency' = NoneDict
            /\ contact' = NoneDict
            /\ lignes' = << >>
            /\ total' = 0
            /\ last_geom' = NoneDict
            /\ pdf_bytes' = None
            /\ ~Displayed'
       /\ (lignes' # lignes /\ lignes' # << >>) =>
            /\ step = 4
            /\ pc' = "returned"
            /\ addr_label' = addr_label
            /\ coords' = coords]_vars

\* a second address was confirmed after a result had been computed for the first
C11_Witness ==
    /\ step = 1
    /\ pc = "page"
    /\ geom # NoneDict
    /\ lignes = << >>
    /\ building_dims = NoneDict
    /\ contact = NoneDict

\* the stored result is the result of the slices the session holds
ResultOfSession ==
    /\ ~Step4Missing
    /\ LET g == GeometryFromDims(building_dims)
           r == build_pricing(g, building_dims.support_key,
                              PricingOptions(points_form, facade_state),
                              facade_state.etat_facade)
       IN  /\ last_geom = g
           /\ lignes = r.lignes
           /\ total = r.total

C13_NoRecomputation ==
    [][(/\ lignes # << >>
        /\ ResultOfSession
        /\ UNCHANGED <<building_dims, facade_state, points_form>>)
       => pc' # "returned"]_vars

C15_StrictLinearOrder ==
    [][/\ step' > step => step' = step + 1
       /\ (pc' = "returned" \/ (lignes' # lignes /\ lignes' # << >>)) =>
            (step = 4 /\ step' = 4)]_vars

\* the last step was reached and computed a result
C15_Witness ==
    /\ step = 4
    /\ pc = "returned"
    /\ lignes # << >>
    /\ ~Step4Missing

EarliestMissing ==
    IF addr_label \in {None, ""} \/ coords = NoneDict THEN 0
    ELSE IF building_dims = NoneDict THEN 1
    ELSE IF facade_state = NoneDict THEN 2
    ELSE IF points_form = NoneDict \/ urgency = NoneDict THEN 3
    ELSE 4

\* the guard of the step the session is at sends the next run elsewhere
RedirectPending ==
    \/ step = 1 /\ Step1Missing
    \/ step = 2 /\ Step2Missing
    \/ step = 3 /\ Step3Missing
    \/ step = 4 /\ Step4Missing

C18_NewEstimationClearsSession ==
    [][/\ (step = 4 /\ ~Step4Missing) => ENABLED Step4NewEstimation
       /\ (addr_label # None /\ addr_label' = None) => (step = 4 /\ init_state')]_vars

\* a new estimation was started after a result had been computed
C18_Witness ==
    /\ init_state
    /\ pc = "page"
    /\ geom # NoneDict

\* C20: for a detached building (PAVILLON) of known depth the geometry the
\* result step derives has the perimeter 2 x (width + depth) (street and rear
\* zones) or the single width (one zone), and 1, 2 or 4 faces.
C20_DetachedPerimeter ==
    (/\ pc = "returned"
     /\ building_dims.building_type = "PAVILLON"
     /\ "depth_m" \in DOMAIN osm_ctx)
    => /\ last_geom.perimetre \in
            {2 * (building_dims.largeur + osm_ctx.depth_m), building_dims.largeur}
       /\ last_geom.nb_facades \in {1, 2, 4}

----------------------------------------------------------------------------
(* The finish and the lines, again                                          *)

\* the finish build_pricing priced: the render line carries it
Finition == lignes[1].designation

\* the finishes, from the least to the most resistant (and expensive)
Resistance == [D3 |-> 1, SILOXANE |-> 2, MINERAL |-> 3]

StoneOrBrick ==
    {"PIERRE_TAILLE", "PIERRE_APPARENTE", "BRIQUE", "BRIQUE_PLEINE", "BRIQUE_APPARENTE"}

\* C21: a stone or brick support resolves to the mineral finish by default,
\* that is in good and in average condition; a rendered support in degraded
\* condition resolves to a finish more resistant than its default D3.
C21_FinishSelection ==
    (Returned /\ KnownEtat(etat_facade)) =>
        /\ (Upper(support_key) \in StoneOrBrick /\ Lower(etat_facade) # "degrade")
               => Finition = "MINERAL"
        /\ (Upper(support_key) = "ENDUIT_CIMENT" /\ Lower(etat_facade) = "degrade")
               => Resistance[Finition] > Resistance["D3"]

\* the number of levels the options give, at least 1
LevelCount(opts) ==
    IF "niveaux" \in DOMAIN opts /\ opts["niveaux"] >= 1 THEN opts["niveaux"] ELSE 1

\* C22: there is one scaffolding line, the second of the list; its quantity is
\* the surface, plus surface / levelCount exactly when the dormer treatment is
\* requested and the dormer count is > 0 (rounded to one decimal as displayed).
C22_ScaffoldingQuantity ==
    Returned =>
        /\ Len(LinesOf(lignes, "ECHAF")) = 1
        /\ lignes[2].code = "ECHAF"
        /\ lignes[2].quantite =
               IF DormerRequested(options)
               THEN RoundDiv(Surface * (LevelCount(options) + 1), 10 * LevelCount(options))
               ELSE RoundDiv(Surface, 10)

\* dormers treated on a building of 3 levels and 225 m2: 300 m2 of scaffolding
C22_Witness ==
    /\ Returned
    /\ DormerRequested(options)
    /\ LevelCount(options) = 3
    /\ Surface = 22500
    /\ lignes[2].quantite = 3000

\* the amount, in cents, of the optional rules from the i-th on: the value
\* times the unit price for each rule whose value is positive
RECURSIVE OptionalCents(_)
OptionalCents(i) ==
    IF i > Len(OptionalRules) THEN 0
    ELSE LET rule == OptionalRules[i]
             value == Get(options, rule.key, 0)
             cents == IF rule.conv = "float" THEN value * PRIX_POINTS[rule.prix]
                      ELSE value * PRIX_POINTS[rule.prix] * 100
         IN  (IF value > 0 THEN cents ELSE 0) + OptionalCents(i + 1)

\* the unrounded sum of the amounts of the lines a call emits before the
\* cleanup line, rule by rule: render, scaffolding, heavy repairs, optional
\* rules, dormers
Subtotal ==
    LET traiter_chiens_assis == Get(options, "traiter_chiens_assis", 0) # 0
        nb_chiens_assis == Or(Get(options, "nb_chiens_assis", 0), 0)
        dormers == traiter_chiens_assis /\ nb_chiens_assis > 0
        niveaux == LevelCount(options)
        p == compute_m2_price(support_key, etat_facade, Get(options, "is_haussmann", 0) # 0)
        raval == MulQP(Surface, p.prix_m2)
        echaf == IF dormers
                 THEN Frac((Surface * niveaux + Surface) * PRIX_ECHAFAUD_M2, niveaux)
                 ELSE [c |-> Surface * PRIX_ECHAFAUD_M2, f |-> 0]
        detectee == Get(options, "surface_reprises_lourdes_detectee", 0)
        surface_rl == Max(100 * detectee, 8 * Surface)
        rl == IF surface_rl > 0
              THEN Frac(surface_rl * PRIX_POINTS["reprise_lourde_m2"], 100)
              ELSE AmtZero
        others == OptionalCents(1)
                  + (IF dormers THEN nb_chiens_assis * PRIX_POINTS["chien_assis_u"] * 100
                     ELSE 0)
    IN  AmtAdd(AmtAdd(AmtAdd(raval, echaf), rl), [c |-> others, f |-> 0])

\* the list ends with its only cleanup line, of 1% of the unrounded sum of the
\* lines before it, and the total is that sum plus the 1%, rounded once
CleanupClosesTheList ==
    LET n == Len(lignes)
        subtotal == Subtotal
        cleanup == AmtPercent(subtotal)
    IN  /\ n >= 1
        /\ lignes[n].code = "NETTOYAGE"
        /\ Len(LinesOf(lignes, "NETTOYAGE")) = 1
        /\ lignes[n].montant = AmtRound(cleanup)
        /\ lignes[n].pu = lignes[n].montant
        /\ total = AmtRound(AmtAdd(subtotal, cleanup))

\* C23: the list a call returned ends with the cleanup line, the only one, of
\* an amount of 1% of the unrounded sum of the amounts of the lines before it,
\* and the total is that sum plus the 1%, rounded once.
C23_CleanupLine == Returned => CleanupClosesTheList

\* a list of more than the mandatory lines, closed by a cleanup line of a
\* positive amount
C23_Witness ==
    /\ Returned
    /\ Len(lignes) > 4
    /\ lignes[Len(lignes)].code = "NETTOYAGE"
    /\ lignes[Len(lignes)].montant > 0
    /\ total > 101 * lignes[Len(lignes)].montant - 101

\* C24: on every line the amount is the line's own quantity times the line's
\* own unit price, rounded to two decimals (quantities in tenths, prices and
\* amounts in cents).
C24_AmountIsQuantityTimesPrice ==
    Returned =>
        \A i \in 1..Len(lignes) :
            lignes[i].montant = RoundDiv(lignes[i].quantite * lignes[i].pu, 10)

C26_CollaboratorFailureDegrades ==
    [][/\ lookups'.context \in {"failed", "raised"} =>
            /\ osm_ctx' = (IF lookups'.context = "raised" THEN NoneDict ELSE Minimal)
            /\ \E s \in Suggestions :
                 /\ addr_label' = s.label
                 /\ coords' = [lat |-> s.lat, lon |-> s.lon]
            /\ step = 0
            /\ step' = 1
            /\ pc' = "page"
       /\ lookups'.address = "failed" =>
            /\ step = 0
            /\ step' = 0
            /\ UNCHANGED <<wizard, result, building_dims>>
      ]_vars

\* the dimensions step reached with the empty context of a lookup that raised
C26_Witness ==
    /\ lookups = [address |-> "found", context |-> "raised"]
    /\ step = 1
    /\ osm_ctx = NoneDict
    /\ addr_label # None
    /\ coords # NoneDict

\* C27: on the paths the buttons drive, the step is one of 0..4, the address
\* label and the coordinates are set from step 1 on, the dimensions from
\* step 2 on, the condition from step 3 on, the options and the urgency at
\* step 4, and no step's redirect guard fires.
C27_StageSliceInvariant ==
    /\ step \in 0..4
    /\ step >= 1 => (addr_label \notin {None, ""} /\ coords # NoneDict)
    /\ step >= 2 => building_dims # NoneDict
    /\ step >= 3 => facade_state # NoneDict
    /\ step = 4 => (points_form # NoneDict /\ urgency # NoneDict)
    /\ ~RedirectPending

\* C28: a run that confirms the address the session already holds clears the
\* dimensions, the condition, the options, the urgency, the contact, the
\* lines, the total, the geometry and the PDF all the same.
C28_SameAddressResets ==
    [][(step = 0 /\ step' = 1 /\ addr_label' = addr_label /\ coords' = coords) =>
            /\ building_dims' = NoneDict
            /\ facade_state' = NoneDict
            /\ points_form' = NoneDict
            /\ urgency' = NoneDict
            /\ contact' = NoneDict
            /\ lignes' = << >>
            /\ total' = 0
            /\ last_geom' = NoneDict
            /\ pdf_bytes' = None]_vars

\* the stored address was confirmed again while dimensions were stored, and
\* the dimensions are gone
C28_Witness ==
    /\ step = 1
    /\ lookups.address = "found"
    /\ before.label = addr_label
    /\ before.dims # NoneDict
    /\ building_dims = NoneDict

\* the keys the options form and main() put in the options of the pricing call
FormOptionKeys ==
    {"has_commerce_rdc", "has_bandeaux", "has_appuis", "has_toiture_debord",
     "has_acroteres", "nb_descente_ep", "has_gardes_corps", "lg_gardes_corps",
     "porte_entree", "porte_cochere"}

C30_SupportKeyFallThrough ==
    Returned =>
        /\ support_key \in {"PLATRE_ANCIEN", "BRIQUE", "BETON", "PAVILLON_ENDUIT"} =>
               Finition = "D3"
        /\ support_key = "PIERRE_TAILLE" =>
               Finition = (IF EtatNorm(etat_facade) = "degrade" THEN "MINERAL" ELSE "SILOXANE")
        /\ Finition \in {"SILOXANE", "MINERAL"} => support_key = "PIERRE_TAILLE"
        /\ support_key \notin FormSupportKeys => Finition = "D3"

\* a degraded rendered facade of the form priced with the D3 finish
C30_Witness ==
    /\ Returned
    /\ support_key = "PLATRE_ANCIEN"
    /\ etat_facade = "DEGRADE"
    /\ Finition = "D3"
    /\ lignes[1].code = "RAVAL"

====
